---- MODULE Spec2Model ----
(***************************************************************************)
(* Model of the gtest-tutorial samples: the runner (samples/main.cpp) and  *)
(* the StdVectorTest suite (samples/stl_unittest.cpp).                     *)
(*                                                                         *)
(* The test framework itself (InitGoogleTest, RUN_ALL_TESTS, EXPECT_THAT,  *)
(* ContainerEq) is an external library; only its call sites are in the     *)
(* repository.  Its behaviour is modelled from the contract the            *)
(* specification gives for it: cases run sequentially, each once, a        *)
(* failed expectation is recorded and does not stop the run, and the       *)
(* result of the run is 0 exactly when nothing failed.                     *)
(***************************************************************************)
EXTENDS Integers, Sequences, FiniteSets, TLC

VARIABLES pc, cur, step, w, x, y, outcome, executed, log, exitStatus, ub

\* pc:         where main is: "main", "run" (in RUN_ALL_TESTS, between cases),
\*             "case" (in a case body), "exit" (returned)
\* cur:        the running case, or "none"
\* step:       the next statement of the running case: "x", "y", "write",
\*             "assert", "end"
\* w:          which assignment of the body is next
\* x, y:       the two vectors of the running case
\* outcome:    the result so far of the running test
\* executed:   how often each case has been entered
\* log:        the recorded results, in execution order
\* exitStatus: the value main returned
\* ub:         an assignment fell outside its vector
vars == <<pc, cur, step, w, x, y, outcome, executed, log, exitStatus, ub>>

\* ------------------------------------------------------------------ bounds

\* Stand-in for `const size_t n = 1000000`: the vectors are modelled dense,
\* element by element, so the length is scaled down.
n == 10

\* How often the re-execution harness (SpecRepeat) may run one case.
MaxRuns == 2

\* Longest vector handed to the matcher in SpecEq.
MaxLen == 3

\* ------------------------------------------------------------- the suite

Cases == {"DiffersInTheBeginning", "DiffersInTheMiddle", "DiffersInTheEnd"}

\* Element values handed to the matcher in SpecEq: int{} and the values the
\* suite writes.
Vals == {0, 20, 30}

\* std::vector<int> v(len): len value-initialised (zero) elements, indexed from 0.
NewVector(len) == [i \in 0 .. len - 1 |-> 0]

\* No vector object: before construction and after the scope is left.
NoVec == NewVector(0)

Size(v) == Cardinality(DOMAIN v)

\* v[i] = val, for an index inside the vector.
Store(v, i, val) == [v EXCEPT ![i] = val]

\* Body with the last assignment of the middle case at n/2 + 2.
Body_Shifted(c) ==
  CASE c = "DiffersInTheBeginning" ->
         << <<0, 20>>, <<1, 30>>, <<2, 40>> >>
    [] c = "DiffersInTheMiddle" ->
         << <<n \div 2 + 0, 20>>, <<n \div 2 + 1, 30>>, <<n \div 2 + 2, 40>> >>
    [] c = "DiffersInTheEnd" ->
         << <<n - 1, 20>> >>

\* Body whose values are set only by the first execution of a case (as from
\* a function-local static initialised once): later executions assign 0.
Body_FirstRunOnly(c) ==
  LET first == executed[c] <= 1
  IN  CASE c = "DiffersInTheBeginning" ->
             << <<0, IF first THEN 20 ELSE 0>>,
                <<1, IF first THEN 30 ELSE 0>>,
                <<2, IF first THEN 40 ELSE 0>> >>
        [] c = "DiffersInTheMiddle" ->
             << <<n \div 2 + 0, IF first THEN 20 ELSE 0>>,
                <<n \div 2 + 1, IF first THEN 30 ELSE 0>>,
                <<n \div 2 + 3, IF first THEN 40 ELSE 0>> >>
        [] c = "DiffersInTheEnd" ->
             << <<n - 1, IF first THEN 20 ELSE 0>> >>

\* The element assignments of a case body, in program order, as <<index, value>>.
Body(c) ==
  CASE c = "DiffersInTheBeginning" ->
         << <<0, 20>>, <<1, 30>>, <<2, 40>> >>
    [] c = "DiffersInTheMiddle" ->
         << <<n \div 2 + 0, 20>>, <<n \div 2 + 1, 30>>, <<n \div 2 + 3, 40>> >>
    [] c = "DiffersInTheEnd" ->
         << <<n - 1, 20>> >>

\* ------------------------------------------------------------ the framework

\* ContainerEq that compares the sizes and the first element only.
ContainerEq_FirstOnly(actual, expected) ==
  /\ Size(actual) = Size(expected)
  /\ \A i \in DOMAIN actual \cap {0} : actual[i] = expected[i]

\* ::testing::ContainerEq(expected) applied to actual: ordered-container
\* equality, the same length and the same value at every index.
ContainerEq(actual, expected) ==
  /\ Size(actual) = Size(expected)
  /\ \A i \in DOMAIN actual : actual[i] = expected[i]

\* The cases whose recorded result is a failure.
FailedCases == {log[i].case : i \in {j \in DOMAIN log : log[j].outcome = "fail"}}

\* The value of RUN_ALL_TESTS(): 0 when every executed case passed, 1 otherwise.
RUN_ALL_TESTS == IF FailedCases = {} THEN 0 ELSE 1

\* exitStatus before main has returned.
NoStatus == -1

\* ------------------------------------------------------------------- state

Init ==
  /\ pc = "main"
  /\ cur = "none"
  /\ step = "none"
  /\ w = 0
  /\ x = NoVec
  /\ y = NoVec
  /\ outcome = "none"
  /\ executed = [c \in Cases |-> 0]
  /\ log = << >>
  /\ exitStatus = NoStatus
  /\ ub = FALSE

\* main, line 14: ::testing::InitGoogleTest(&argc, argv); control then enters
\* RUN_ALL_TESTS().
InitGoogleTest ==
  /\ pc = "main"
  /\ pc' = "run"
  /\ UNCHANGED <<cur, step, w, x, y, outcome, executed, log, exitStatus, ub>>

\* The framework enters the body of case c; a test starts with no failure.
Enter(c) ==
  /\ pc = "run"
  /\ pc' = "case"
  /\ cur' = c
  /\ step' = "x"
  /\ w' = 1
  /\ outcome' = "pass"
  /\ executed' = [executed EXCEPT ![c] = @ + 1]
  /\ UNCHANGED <<x, y, log, exitStatus, ub>>

\* StartCase of a framework that stops running cases after the first failure.
StartCase_StopAfterFailure ==
  \E c \in Cases :
    /\ executed[c] = 0
    /\ FailedCases = {}
    /\ Enter(c)

\* RUN_ALL_TESTS picks a registered case that has not run yet.
StartCase ==
  \E c \in Cases :
    /\ executed[c] = 0
    /\ Enter(c)

\* std::vector<int> x(n);
ConstructX ==
  /\ pc = "case"
  /\ step = "x"
  /\ x' = NewVector(n)
  /\ step' = "y"
  /\ UNCHANGED <<pc, cur, w, y, outcome, executed, log, exitStatus, ub>>

\* ConstructY with half the length: std::vector<int> y(n/2);
ConstructY_Half ==
  /\ pc = "case"
  /\ step = "y"
  /\ y' = NewVector(n \div 2)
  /\ step' = "write"
  /\ UNCHANGED <<pc, cur, w, x, outcome, executed, log, exitStatus, ub>>

\* std::vector<int> y(n);
ConstructY ==
  /\ pc = "case"
  /\ step = "y"
  /\ y' = NewVector(n)
  /\ step' = "write"
  /\ UNCHANGED <<pc, cur, w, x, outcome, executed, log, exitStatus, ub>>

\* WriteStep that assigns to x instead of y.
WriteStep_IntoX ==
  /\ pc = "case"
  /\ step = "write"
  /\ LET index == Body(cur)[w][1]
         value == Body(cur)[w][2]
     IN  IF index \in DOMAIN x
           THEN /\ x' = Store(x, index, value)
                /\ ub' = ub
           ELSE /\ x' \in [DOMAIN x -> Vals]
                /\ ub' = TRUE
  /\ w' = w + 1
  /\ step' = IF w = Len(Body(cur)) THEN "assert" ELSE "write"
  /\ UNCHANGED <<pc, cur, y, outcome, executed, log, exitStatus>>

\* y[index] = value; the next assignment (the w-th) of the body.  operator[] does not
\* check the index: outside the vector the behaviour is undefined, here any
\* content of y.
WriteStep ==
  /\ pc = "case"
  /\ step = "write"
  /\ LET index == Body(cur)[w][1]
         value == Body(cur)[w][2]
     IN  IF index \in DOMAIN y
           THEN /\ y' = Store(y, index, value)
                /\ ub' = ub
           ELSE /\ y' \in [DOMAIN y -> Vals]
                /\ ub' = TRUE
  /\ w' = w + 1
  /\ step' = IF w = Len(Body(cur)) THEN "assert" ELSE "write"
  /\ UNCHANGED <<pc, cur, x, outcome, executed, log, exitStatus>>

\* AssertStep that matches x against itself: EXPECT_THAT(x, ContainerEq(x)).
AssertStep_SelfCompare ==
  /\ pc = "case"
  /\ step = "assert"
  /\ outcome' = IF ContainerEq(x, x) THEN outcome ELSE "fail"
  /\ step' = "end"
  /\ UNCHANGED <<pc, cur, w, x, y, executed, log, exitStatus, ub>>

\* EXPECT_THAT(x, ::testing::ContainerEq(y)); a failed expectation marks the
\* running test as failed and execution continues.
AssertStep ==
  /\ pc = "case"
  /\ step = "assert"
  /\ outcome' = IF ContainerEq(x, y) THEN outcome ELSE "fail"
  /\ step' = "end"
  /\ UNCHANGED <<pc, cur, w, x, y, executed, log, exitStatus, ub>>

\* The closing brace of the case: y and x are destroyed, and the framework
\* records the result of the test.
EndCase ==
  /\ pc = "case"
  /\ step = "end"
  /\ log' = Append(log, [case |-> cur, outcome |-> outcome])
  /\ x' = NoVec
  /\ y' = NoVec
  /\ pc' = "run"
  /\ cur' = "none"
  /\ step' = "none"
  /\ w' = 0
  /\ outcome' = "none"
  /\ UNCHANGED <<executed, exitStatus, ub>>

\* MainReturn that drops the result of the run: RUN_ALL_TESTS(); return 0;
MainReturn_Zero ==
  /\ pc = "run"
  /\ \A c \in Cases : executed[c] # 0
  /\ exitStatus' = 0
  /\ pc' = "exit"
  /\ UNCHANGED <<cur, step, w, x, y, outcome, executed, log, ub>>

\* main, line 15: return RUN_ALL_TESTS(); once every registered case has run.
MainReturn ==
  /\ pc = "run"
  /\ \A c \in Cases : executed[c] # 0
  /\ exitStatus' = RUN_ALL_TESTS
  /\ pc' = "exit"
  /\ UNCHANGED <<cur, step, w, x, y, outcome, executed, log, ub>>

Next ==
  \/ InitGoogleTest
  \/ StartCase
  \/ ConstructX
  \/ ConstructY
  \/ WriteStep
  \/ AssertStep
  \/ EndCase
  \/ MainReturn

Spec == Init /\ [][Next]_vars

\* ------------------------------------------------- re-execution of the cases

\* The suite with the framework initialised, before any case has run.
InitRepeat ==
  /\ pc = "run"
  /\ cur = "none"
  /\ step = "none"
  /\ w = 0
  /\ x = NoVec
  /\ y = NoVec
  /\ outcome = "none"
  /\ executed = [c \in Cases |-> 0]
  /\ log = << >>
  /\ exitStatus = NoStatus
  /\ ub = FALSE

\* Any case is executed again, in any order, up to MaxRuns times each.
StartCaseAgain ==
  \E c \in Cases :
    /\ executed[c] < MaxRuns
    /\ Enter(c)

NextRepeat ==
  \/ StartCaseAgain
  \/ ConstructX
  \/ ConstructY
  \/ WriteStep
  \/ AssertStep
  \/ EndCase

SpecRepeat == InitRepeat /\ [][NextRepeat]_vars

\* ------------------------------------------- the matcher on arbitrary vectors

\* Every vector of at most MaxLen elements over Vals.
Vectors == UNION {[0 .. len - 1 -> Vals] : len \in 0 .. MaxLen}

\* A case stands at its EXPECT_THAT with any two vectors as x and y.
InitEq ==
  /\ pc = "case"
  /\ cur \in Cases
  /\ step = "assert"
  /\ w = 0
  /\ x \in Vectors
  /\ y \in Vectors
  /\ outcome = "pass"
  /\ executed = [c \in Cases |-> IF c = cur THEN 1 ELSE 0]
  /\ log = << >>
  /\ exitStatus = NoStatus
  /\ ub = FALSE

NextEq == AssertStep

SpecEq == InitEq /\ [][NextEq]_vars

\* ------------------------------------------------------------------ claims

\* The vectors of the running case exist (both constructors have run).
InBody == pc = "case" /\ step \in {"write", "assert", "end"}

\* The recorded results of case c, in the order of its executions.
OutcomesOf(c) == {log[i].outcome : i \in {j \in DOMAIN log : log[j].case = c}}

\* C1: when main has returned, the exit status is 0 if and only if every
\* executed case passed its assertion; with a failed case it is non-zero.
\* Until main returns there is no exit status.
C1_ExitZeroIffAllPassed ==
  /\ pc = "exit" =>
       /\ exitStatus # NoStatus
       /\ exitStatus = 0 <=> (\A i \in DOMAIN log : log[i].outcome = "pass")
  /\ pc # "exit" => exitStatus = NoStatus

C1_Witness ==
  /\ pc = "exit"
  /\ \E i \in DOMAIN log : log[i].outcome = "fail"
  /\ exitStatus # 0

\* C2: no case is ever executed more than once; when the runner returns every
\* registered case has been executed and recorded exactly once; and the run
\* never stops before main returns, whatever failures have been recorded.
C2_EachCaseOnce ==
  /\ \A c \in Cases : executed[c] <= 1
  /\ pc = "exit" =>
       /\ \A c \in Cases : executed[c] = 1
       /\ \A c \in Cases : Cardinality({i \in DOMAIN log : log[i].case = c}) = 1
  /\ pc # "exit" => ENABLED Next

\* A later case is running although an earlier one has failed.
C2_Witness ==
  /\ pc = "case"
  /\ step = "end"
  /\ Len(log) = 2
  /\ \A i \in DOMAIN log : log[i].outcome = "fail"

\* C3: from its construction to the end of the case, x is the all-zero
\* sequence of length n; before its construction there is no x.
C3_ExpectedAllZero ==
  /\ (pc = "case" /\ step # "x") =>
       /\ DOMAIN x = 0 .. n - 1
       /\ \A i \in 0 .. n - 1 : x[i] = 0
  /\ (pc = "case" /\ step = "x") => DOMAIN x = {}

C3_Witness ==
  /\ pc = "case"
  /\ step = "end"
  /\ DOMAIN x = 0 .. n - 1
  /\ \A i \in 0 .. n - 1 : x[i] = 0
  /\ \E i \in DOMAIN y : y[i] # 0

\* The declared divergence of case c: index -> nonzero value.
Declared(c) ==
  CASE c = "DiffersInTheBeginning" -> (0 :> 20) @@ (1 :> 30) @@ (2 :> 40)
    [] c = "DiffersInTheMiddle" ->
         (n \div 2 :> 20) @@ (n \div 2 + 1 :> 30) @@ (n \div 2 + 3 :> 40)
    [] c = "DiffersInTheEnd" -> (n - 1 :> 20)

\* C4: when the assertion is evaluated, y has length n, holds the declared
\* value at every declared divergence index and 0 at every other index.
C4_ActualDiffersOnlyAtDeclared ==
  (pc = "case" /\ step \in {"assert", "end"}) =>
     /\ DOMAIN y = 0 .. n - 1
     /\ \A i \in 0 .. n - 1 :
          y[i] = IF i \in DOMAIN Declared(cur) THEN Declared(cur)[i] ELSE 0

C4_Witness ==
  /\ pc = "case"
  /\ cur = "DiffersInTheMiddle"
  /\ step = "assert"
  /\ y[n \div 2 + 3] = 40
  /\ y[n \div 2 + 2] = 0

\* C5: the assertion passes exactly when x and y have the same length and the
\* same value at every index; in particular it fails whenever x is all zero of
\* length >= 1 and y, of the same length, is nonzero at some index.
C5_ContainerEqIsElementwise ==
  (pc = "case" /\ step = "end") =>
     /\ outcome = "pass" <=>
          /\ Size(x) = Size(y)
          /\ ~ \E i \in 0 .. Size(x) - 1 : x[i] # y[i]
     /\ ( /\ Size(x) >= 1
          /\ Size(y) = Size(x)
          /\ \A i \in DOMAIN x : x[i] = 0
          /\ \E i \in DOMAIN y : y[i] # 0 ) => outcome = "fail"

\* The assertion has failed on an all-zero x and a y that differs from it
\* only at its last index.
C5_Witness ==
  /\ pc = "case"
  /\ step = "end"
  /\ outcome = "fail"
  /\ Size(x) = MaxLen
  /\ Size(y) = MaxLen
  /\ \A i \in DOMAIN x : x[i] = 0
  /\ \A i \in DOMAIN y : (y[i] # 0) <=> (i = MaxLen - 1)

\* C8: every execution of a case records the same outcome, whatever ran in
\* between, and a case begins with no vector left from an earlier execution.
C8_SameOutcomeEachTime ==
  /\ \A c \in Cases : Cardinality(OutcomesOf(c)) <= 1
  /\ (pc = "case" /\ step = "x") => (DOMAIN x = {} /\ DOMAIN y = {})

\* A case has been executed twice with another case in between.
C8_Witness ==
  \E i, j, k \in DOMAIN log :
    /\ i < j
    /\ j < k
    /\ log[i].case = log[k].case
    /\ log[j].case # log[i].case
    /\ log[i].outcome = log[k].outcome

\* C9: every recorded result is a failure, the exit status is never 0, and
\* when main returns three failures are recorded, one for each case.
C9_EveryCaseFails ==
  /\ exitStatus # 0
  /\ \A i \in DOMAIN log : log[i].outcome = "fail"
  /\ pc = "exit" =>
       /\ Len(log) = 3
       /\ {log[i].case : i \in DOMAIN log} = Cases
       /\ exitStatus \notin {0, NoStatus}

C9_Witness ==
  /\ pc = "exit"
  /\ Len(log) = 3
  /\ exitStatus = 1

\* C10: both vectors of a case have length n, and no assignment of a case body
\* falls outside y.
C10_WritesInBounds ==
  /\ ub = FALSE
  /\ InBody => (Size(x) = n /\ Size(y) = n)
  /\ (pc = "case" /\ step = "write") => \E i \in 0 .. n - 1 : Body(cur)[w][1] = i

\* The last assignment of the middle case, at n/2 + 3, has been made.
C10_Witness ==
  /\ pc = "case"
  /\ cur = "DiffersInTheMiddle"
  /\ step = "assert"
  /\ w = 4
  /\ ub = FALSE
  /\ Size(y) = n

====
